---- MODULE Spec2Model ----
(***************************************************************************)
(* Arbeitsplan_app.py: assignment of workers (mitarbeiter) to events.      *)
(*                                                                         *)
(* Three specifications share the variables below.                         *)
(*   SpecAssign  the pure function assign_to_event, applied to candidate   *)
(*               lists, quota mappings, headcounts and leader flags drawn  *)
(*               from bounded sets.                                        *)
(*   Spec        the planning pass of tab1 ("Plan jetzt berechnen") over a *)
(*               snapshot of events and workers, one loop iteration per    *)
(*               step.                                                     *)
(*   SpecEvents  the session from its initial collections: the add-event   *)
(*               form, the save and delete buttons of tab2, and planning   *)
(*               passes.                                                   *)
(*                                                                         *)
(* Dates are ISO strings "YYYY-MM-DD" in the program; they are only        *)
(* compared and tested for membership, so a date is modelled by its        *)
(* ordinal (1, 2, ...) and the empty sort key "" by 0.  A worker is the     *)
(* dict of the program, a record with the same keys; list membership and   *)
(* list.remove compare dicts by value, as record equality does.            *)
(***************************************************************************)
EXTENDS Integers, Sequences, FiniteSets, TLC

(* ---- bounds of the model ---- *)
MaxCand == 3
MaxQuota == 1
MaxReq == 2
MaxEvents == 2
MaxWorkers == 3
MaxListLen == 2

(* ---- program constants ---- *)
LeiterLevel == 2
MaxLevel == 3
MitarbeiterProStand == 2

LicenseClasses == {"BE", "B", "none"}
LicenseSets == {{}, {"B"}, {"BE"}}

Min(a, b) == IF a < b THEN a ELSE b
Max(a, b) == IF a > b THEN a ELSE b

(* ---- helpers of the program ---- *)

matches_license(fuehrerscheine, req_class) ==
    IF req_class = "none" THEN TRUE
    ELSE IF req_class = "B" THEN "B" \in fuehrerscheine \/ "BE" \in fuehrerscheine
    ELSE IF req_class = "BE" THEN "BE" \in fuehrerscheine
    ELSE FALSE

(* list.sort(key=lambda m: -m["erfahrung_level"]): stable, descending level *)
RECURSIVE SortLevelDesc(_)
SortLevelDesc(s) ==
    IF s = <<>> THEN <<>>
    ELSE LET x == Head(s)
             rest == SortLevelDesc(Tail(s))
             Higher(m) == m.erfahrung_level > x.erfahrung_level
             NotHigher(m) == ~Higher(m)
         IN SelectSeq(rest, Higher) \o <<x>> \o SelectSeq(rest, NotHigher)

(* list.sort(key=lambda m: m["erfahrung_level"]): stable, ascending level *)
RECURSIVE SortLevelAsc(_)
SortLevelAsc(s) ==
    IF s = <<>> THEN <<>>
    ELSE LET x == Head(s)
             rest == SortLevelAsc(Tail(s))
             Lower(m) == m.erfahrung_level < x.erfahrung_level
             NotLower(m) == ~Lower(m)
         IN SelectSeq(rest, Lower) \o <<x>> \o SelectSeq(rest, NotLower)

(* list.remove(x): drops the first element equal to x *)
RECURSIVE ListRemove(_, _)
ListRemove(s, x) ==
    IF s = <<>> THEN <<>>
    ELSE IF Head(s) = x THEN Tail(s)
    ELSE <<Head(s)>> \o ListRemove(Tail(s), x)

RECURSIVE ListRemoveAll(_, _)
ListRemoveAll(s, xs) ==
    IF xs = <<>> THEN s ELSE ListRemoveAll(ListRemove(s, Head(xs)), Tail(xs))

InList(x, s) == \E i \in 1..Len(s) : s[i] = x

(* s[:n] for n >= 0 *)
Prefix(s, n) == SubSeq(s, 1, Min(n, Len(s)))

(* max((m["erfahrung_level"] for m in s), default=0) *)
MaxLevelOf(s) ==
    IF s = <<>> THEN 0
    ELSE CHOOSE l \in {s[i].erfahrung_level : i \in 1..Len(s)} :
            \A i \in 1..Len(s) : s[i].erfahrung_level <= l

(* sort key of line 83: none -> 0, B -> 1, anything else -> 2 *)
LicRank(x) == IF x = "none" THEN 0 ELSE IF x = "B" THEN 1 ELSE 2

(* sorted(quota.keys(), key=LicRank, reverse=True) *)
license_order(quota) ==
    CHOOSE s \in [1..Cardinality(DOMAIN quota) -> DOMAIN quota] :
        /\ \A k \in DOMAIN quota : \E i \in DOMAIN s : s[i] = k
        /\ \A i, j \in DOMAIN s : i < j => LicRank(s[i]) > LicRank(s[j])

(* one iteration of the loop of lines 85-93 *)
QuotaStep_DropSuitable(st, lic, quota) ==
    LET needed == quota[lic]
        Suits(m) == matches_license(m.fuehrerscheine, lic)
        suitable == SortLevelDesc(SelectSeq(st.remaining, Suits))
        picked == Prefix(suitable, needed)
    IN IF needed <= 0 THEN st
       ELSE [assigned |-> st.assigned \o picked,
             remaining |-> ListRemoveAll(st.remaining, suitable)]

QuotaStep(st, lic, quota) ==
    LET needed == quota[lic]
        Suits(m) == matches_license(m.fuehrerscheine, lic)
        suitable == SortLevelDesc(SelectSeq(st.remaining, Suits))
        picked == Prefix(suitable, needed)
    IN IF needed <= 0 THEN st
       ELSE [assigned |-> st.assigned \o picked,
             remaining |-> ListRemoveAll(st.remaining, picked)]

RECURSIVE QuotaPass(_, _, _)
QuotaPass(st, order, quota) ==
    IF order = <<>> THEN st
    ELSE QuotaPass(QuotaStep(st, Head(order), quota), Tail(order), quota)

(* lines 95-98 *)
FillPass(st, effective_required) ==
    LET still_needed == effective_required - Len(st.assigned)
    IN IF still_needed > 0
       THEN st.assigned \o Prefix(SortLevelDesc(st.remaining), still_needed)
       ELSE st.assigned

(* the roster after the quota pass and the fill pass (lines 79-98) *)
GreedyRoster(candidates, quota, effective_required) ==
    FillPass(QuotaPass([assigned |-> <<>>, remaining |-> candidates],
                       license_order(quota), quota),
             effective_required)

LeiterAvail_AnyLevel(candidates, assigned) ==
    LET Ok(m) == m.erfahrung_level >= 1 /\ ~InList(m, assigned)
    IN SelectSeq(candidates, Ok)

(* [m for m in candidates if m["erfahrung_level"] >= 2 and m not in assigned] *)
LeiterAvail(candidates, assigned) ==
    LET Ok(m) == m.erfahrung_level >= LeiterLevel /\ ~InList(m, assigned)
    IN SelectSeq(candidates, Ok)

NoResult == [status |-> "none", assigned |-> <<>>, error |-> [kind |-> "none"]]
Success(assigned) == [status |-> "ok", assigned |-> assigned, error |-> [kind |-> "none"]]
Failure(err) == [status |-> "error", assigned |-> <<>>, error |-> err]
Raised(exc) == [status |-> "raise", assigned |-> <<>>, error |-> [kind |-> exc]]

(* lines 103-111 *)
LeaderStep(candidates, assigned, needs_leiter) ==
    IF needs_leiter /\ MaxLevelOf(assigned) < LeiterLevel
    THEN LET leiter_avail == LeiterAvail(candidates, assigned)
             sorted == SortLevelAsc(assigned)
         IN IF leiter_avail # <<>>
            THEN IF sorted = <<>>
                 THEN Raised("IndexError")
                 ELSE Success(<<leiter_avail[1]>> \o Tail(sorted))
            ELSE Failure([kind |-> "leiter"])
    ELSE Success(assigned)

assign_to_event_Inverted(candidates, required_fuehrerscheine, effective_required, needs_leiter) ==
    IF Len(candidates) > effective_required
    THEN Failure([kind |-> "candidates", have |-> Len(candidates),
                  need |-> effective_required])
    ELSE LET assigned == GreedyRoster(candidates, required_fuehrerscheine,
                                      effective_required)
         IN IF Len(assigned) < effective_required
            THEN Failure([kind |-> "assigned", have |-> Len(assigned),
                          need |-> effective_required])
            ELSE LeaderStep(candidates, assigned, needs_leiter)

assign_to_event(candidates, required_fuehrerscheine, effective_required, needs_leiter) ==
    IF Len(candidates) < effective_required
    THEN Failure([kind |-> "candidates", have |-> Len(candidates),
                  need |-> effective_required])
    ELSE LET assigned == GreedyRoster(candidates, required_fuehrerscheine,
                                      effective_required)
         IN IF Len(assigned) < effective_required
            THEN Failure([kind |-> "assigned", have |-> Len(assigned),
                          need |-> effective_required])
            ELSE LeaderStep(candidates, assigned, needs_leiter)

(* effective_required of lines 143-146 *)
EffectiveRequired(event) ==
    Max(event.required_mitarbeiter,
        event.anzahl_staende * event.mitarbeiter_pro_stand)

(* sort key of line 136: first required date, "" (here 0) when there is none *)
SortKey(event) ==
    IF event.required_dates # <<>> THEN event.required_dates[1] ELSE 0

(* sorted(events, key=SortKey): stable, ascending *)
RECURSIVE SortEvents(_)
SortEvents(s) ==
    IF s = <<>> THEN <<>>
    ELSE LET x == Head(s)
             rest == SortEvents(Tail(s))
             Earlier(e) == SortKey(e) < SortKey(x)
             NotEarlier(e) == ~Earlier(e)
         IN SelectSeq(rest, Earlier) \o <<x>> \o SelectSeq(rest, NotEarlier)

DateSet(event) == {event.required_dates[i] : i \in 1..Len(event.required_dates)}

FilterCandidates_AnyDate(workers, used, event) ==
    LET Free(m) == \E d \in DateSet(event) : d \notin used[m.id]
    IN SelectSeq(workers, Free)

(* candidate filter of lines 139-142 *)
FilterCandidates(workers, used, event) ==
    LET Free(m) == \A d \in DateSet(event) : d \notin used[m.id]
    IN SelectSeq(workers, Free)

ClaimDates_FirstDate(used, assigned, event) ==
    [i \in DOMAIN used |->
        IF \E k \in 1..Len(assigned) : assigned[k].id = i
        THEN used[i] \cup (IF event.required_dates = <<>> THEN {}
                         ELSE {event.required_dates[1]})
        ELSE used[i]]

(* lines 163-165: every required date is added for every assigned worker *)
ClaimDates(used, assigned, event) ==
    [i \in DOMAIN used |->
        IF \E k \in 1..Len(assigned) : assigned[k].id = i
        THEN used[i] \cup DateSet(event)
        ELSE used[i]]

(* the plan entry of lines 155-162 *)
PlanEntry(res) ==
    IF res.status = "error"
    THEN [status |-> "FEHLER", grund |-> res.error, mitarbeiter |-> <<>>, anzahl |-> 0]
    ELSE [status |-> "OK", grund |-> res.error,
          mitarbeiter |-> [k \in 1..Len(res.assigned) |-> res.assigned[k].name],
          anzahl |-> Len(res.assigned)]

(* the result of assign_to_event for one event of the loop (lines 139-153) *)
EventResult(workers, used, event) ==
    assign_to_event(FilterCandidates(workers, used, event),
                    event.required_fuehrerscheine,
                    EffectiveRequired(event),
                    event.needs_leiter)

(* line 134 *)
NoDatesUsed(workers) == [i \in {workers[k].id : k \in 1..Len(workers)} |-> {}]

(* the loop of lines 138-165 from one event on: the results of              *)
(* assign_to_event in order, ending at an uncaught exception                *)
RECURSIVE PassFrom(_, _, _, _)
PassFrom(workers, evs, used, acc) ==
    IF evs = <<>> THEN acc
    ELSE LET res == EventResult(workers, used, Head(evs))
         IN IF res.status = "raise" THEN Append(acc, res)
            ELSE PassFrom(workers, Tail(evs),
                          IF res.status = "ok"
                          THEN ClaimDates(used, res.assigned, Head(evs))
                          ELSE used,
                          Append(acc, res))

(* the planning pass of lines 134-165 as a function of the two collections *)
PlanResults(evs, workers) ==
    PassFrom(workers, SortEvents(evs), NoDatesUsed(workers), <<>>)

(* ---- state ---- *)
VARIABLES
    events,             \* st.session_state.events
    mitarbeiter,        \* st.session_state.mitarbeiter
    pc,                 \* "idle", "loop", "done" or "aborted" (uncaught exception)
    sorted_events,      \* local of the planning pass
    idx,                \* position of the loop of line 138 in sorted_events
    worker_used_dates,  \* worker id -> set of claimed dates
    plan,               \* event id -> plan entry
    results,            \* what assign_to_event returned, per processed event
    call,               \* arguments of the last call of assign_to_event
    ret                 \* its result

planvars == <<events, mitarbeiter, pc, sorted_events, idx, worker_used_dates,
              plan, results>>
vars == <<events, mitarbeiter, pc, sorted_events, idx, worker_used_dates,
          plan, results, call, ret>>

Worker(i, fs, lvl, termine) ==
    [id |-> i, name |-> i, fuehrerscheine |-> fs, erfahrung_level |-> lvl,
     verfuegbare_termine |-> termine]

Event(i, dates, rm, staende, quota, leiter) ==
    [id |-> i, required_dates |-> dates, required_mitarbeiter |-> rm,
     anzahl_staende |-> staende, mitarbeiter_pro_stand |-> MitarbeiterProStand,
     required_fuehrerscheine |-> quota, needs_leiter |-> leiter]

NoCall == [candidates |-> <<>>, quota |-> [c \in LicenseClasses |-> 0],
           effective_required |-> 0, needs_leiter |-> FALSE]

NoPlan == [e \in {} |-> 0]

(* ---- SpecAssign: assign_to_event as a function of its arguments ---- *)

(* candidate lists: distinct ids, any licences and levels *)
CandidateLists ==
    UNION {{[i \in 1..n |-> Worker(i, f[i][1], f[i][2], {})] :
              f \in [1..n -> LicenseSets \X (1..MaxLevel)]} : n \in 0..MaxCand}

Quotas == [LicenseClasses -> 0..MaxQuota]

InitAssign ==
    /\ events = <<>>
    /\ mitarbeiter = <<>>
    /\ pc = "idle"
    /\ sorted_events = <<>>
    /\ idx = 0
    /\ worker_used_dates = NoPlan
    /\ plan = NoPlan
    /\ results = <<>>
    /\ call = NoCall
    /\ ret = NoResult

Assign ==
    /\ ret.status = "none"
    /\ \E c \in CandidateLists, q \in Quotas, r \in 0..MaxReq, l \in BOOLEAN :
         /\ call' = [candidates |-> c, quota |-> q, effective_required |-> r,
                     needs_leiter |-> l]
         /\ ret' = assign_to_event(c, q, r, l)
    /\ UNCHANGED planvars

NextAssign == Assign

SpecAssign == InitAssign /\ [][NextAssign]_vars

(* ---- claims about assign_to_event (SpecAssign) ---- *)

Called == ret.status # "none"
Levels(s) == {s[i].erfahrung_level : i \in 1..Len(s)}
Count(x, s) == Cardinality({i \in 1..Len(s) : s[i] = x})
SameBag(s, t) ==
    /\ Len(s) = Len(t)
    /\ \A i \in 1..Len(s) : Count(s[i], s) = Count(s[i], t)
RemoveAt(s, i) == SubSeq(s, 1, i - 1) \o SubSeq(s, i + 1, Len(s))
Matching(s, c) ==
    Cardinality({i \in 1..Len(s) : matches_license(s[i].fuehrerscheine, c)})
CallGreedy == GreedyRoster(call.candidates, call.quota, call.effective_required)

(* C2: whenever assign_to_event returns Success, the roster has exactly     *)
(* effective_required workers, whatever the quota mapping sums to.          *)
C2_QuotaConservation ==
    ret.status = "ok" => Len(ret.assigned) = call.effective_required

(* C3: whenever assign_to_event returns Success, every class c with         *)
(* quota[c] > 0 has at least quota[c] roster members matching c.            *)
C3_QuotaMet ==
    ret.status = "ok" =>
        \A c \in DOMAIN call.quota :
            call.quota[c] > 0 => Matching(ret.assigned, c) >= call.quota[c]

(* C5 as claimed: with needs_leader, a Success roster holds a worker at or  *)
(* above the threshold, and when no candidate reaches the threshold the     *)
(* result is the Failure "no leader available".                             *)
C5_LeaderOrNoLeaderFailure ==
    (Called /\ call.needs_leiter) =>
        /\ ret.status = "ok" => \E l \in Levels(ret.assigned) : l >= LeiterLevel
        /\ (\A l \in Levels(call.candidates) : l < LeiterLevel) =>
               (ret.status = "error" /\ ret.error.kind = "leiter")

(* C5 amended: with needs_leader, a Success roster holds a worker at or     *)
(* above the threshold; when no candidate reaches the threshold the result  *)
(* is a Failure: "no leader available" if there are at least                *)
(* effective_required candidates, the insufficient-candidates failure of    *)
(* the first check otherwise.                                               *)
C5_LeaderOrFailure ==
    (Called /\ call.needs_leiter) =>
        /\ ret.status = "ok" => \E l \in Levels(ret.assigned) : l >= LeiterLevel
        /\ (\A l \in Levels(call.candidates) : l < LeiterLevel) =>
               /\ ret.status = "error"
               /\ ret.error.kind =
                     IF Len(call.candidates) >= call.effective_required
                     THEN "leiter" ELSE "candidates"

C5_Witness ==
    /\ call.needs_leiter
    /\ ret.status = "ok"
    /\ MaxLevelOf(CallGreedy) < LeiterLevel
    /\ Len(call.candidates) > Len(ret.assigned)

(* C8: when leader substitution happens, the roster is the greedy roster    *)
(* with one lowest-experience member removed and the highest-experience     *)
(* leader-eligible candidate outside the greedy roster added.               *)
SubstitutionHappens ==
    /\ call.needs_leiter
    /\ ret.status = "ok"
    /\ MaxLevelOf(CallGreedy) < LeiterLevel
    /\ LeiterAvail(call.candidates, CallGreedy) # <<>>

C8_BestLeaderSubstituted ==
    SubstitutionHappens =>
        LET greedy == CallGreedy
            avail == LeiterAvail(call.candidates, greedy)
        IN \E i \in 1..Len(greedy), k \in 1..Len(avail) :
              /\ \A j \in 1..Len(greedy) :
                    greedy[i].erfahrung_level <= greedy[j].erfahrung_level
              /\ \A j \in 1..Len(avail) :
                    avail[k].erfahrung_level >= avail[j].erfahrung_level
              /\ SameBag(ret.assigned, Append(RemoveAt(greedy, i), avail[k]))

(* C9: when the first feasibility check passes, the quota pass and the fill *)
(* pass assign at least effective_required workers, so the "quota unmet"    *)
(* failure is never returned.                                               *)
C9_QuotaUnmetUnreachable ==
    (Called /\ Len(call.candidates) >= call.effective_required) =>
        /\ Len(CallGreedy) >= call.effective_required
        /\ ret.error.kind # "assigned"

C9_Witness ==
    /\ Called
    /\ Len(call.candidates) >= call.effective_required
    /\ \E c \in DOMAIN call.quota : call.quota[c] > 0
    /\ call.effective_required >
          Len(QuotaPass([assigned |-> <<>>, remaining |-> call.candidates],
                        license_order(call.quota), call.quota).assigned)
    /\ Len(QuotaPass([assigned |-> <<>>, remaining |-> call.candidates],
                     license_order(call.quota), call.quota).assigned) > 0

(* ---- Spec: the planning pass over a snapshot of events and workers ---- *)

(* The value sets of a snapshot.  Worker ids and event ids are distinct, as *)
(* in the initial collections of lines 10-51.  The candidate filter never reads     *)
(* verfuegbare_termine, and with an all-zero quota the licences are never   *)
(* read either, so one value of each is enough here; SpecAssign varies the  *)
(* licences and the quota.                                                  *)
DateRuns == {<<>>, <<1>>, <<2>>, <<1, 2>>}
AvailSets == {{1}}
PlanLevels == {1, LeiterLevel}
PlanLicenseSets == {{"B"}}
PlanQuotas == {[c \in LicenseClasses |-> 0]}
Headcounts == {<<0, 0>>, <<1, 0>>, <<0, 1>>}

WorkerPools ==
    UNION {{[i \in 1..n |-> Worker(i, f[i][1], f[i][2], f[i][3])] :
              f \in [1..n -> PlanLicenseSets \X PlanLevels \X AvailSets]} :
           n \in 0..MaxWorkers}

EventLists ==
    UNION {{[i \in 1..n |-> Event(i, f[i][1], f[i][2][1], f[i][2][2], f[i][3], f[i][4])] :
              f \in [1..n -> DateRuns \X Headcounts \X PlanQuotas \X BOOLEAN]} :
           n \in 0..MaxEvents}

Init ==
    /\ events \in EventLists
    /\ mitarbeiter \in WorkerPools
    /\ pc = "idle"
    /\ sorted_events = <<>>
    /\ idx = 0
    /\ worker_used_dates = NoPlan
    /\ plan = NoPlan
    /\ results = <<>>
    /\ call = NoCall
    /\ ret = NoResult

(* lines 132-136: the button starts a pass, in a script run of its own, so *)
(* whatever an earlier pass left behind is gone                            *)
PlanStart ==
    /\ pc # "loop"
    /\ worker_used_dates' = NoDatesUsed(mitarbeiter)
    /\ plan' = NoPlan
    /\ sorted_events' = SortEvents(events)
    /\ idx' = 1
    /\ results' = <<>>
    /\ call' = NoCall
    /\ ret' = NoResult
    /\ pc' = IF events = <<>> THEN "done" ELSE "loop"
    /\ UNCHANGED <<events, mitarbeiter>>

(* lines 138-165: one iteration of the loop over sorted_events *)
PlanEvent ==
    /\ pc = "loop"
    /\ idx <= Len(sorted_events)
    /\ LET event == sorted_events[idx]
           candidates == FilterCandidates(mitarbeiter, worker_used_dates, event)
           res == EventResult(mitarbeiter, worker_used_dates, event)
       IN /\ call' = [candidates |-> candidates,
                      quota |-> event.required_fuehrerscheine,
                      effective_required |-> EffectiveRequired(event),
                      needs_leiter |-> event.needs_leiter]
          /\ ret' = res
          /\ results' = Append(results, res)
          /\ IF res.status = "raise"
             THEN /\ pc' = "aborted"
                  /\ UNCHANGED <<plan, worker_used_dates, idx>>
             ELSE /\ plan' = [i \in DOMAIN plan \cup {event.id} |->
                                 IF i = event.id THEN PlanEntry(res) ELSE plan[i]]
                  /\ worker_used_dates' =
                        IF res.status = "ok"
                        THEN ClaimDates(worker_used_dates, res.assigned, event)
                        ELSE worker_used_dates
                  /\ idx' = idx + 1
                  /\ pc' = IF idx = Len(sorted_events) THEN "done" ELSE "loop"
    /\ UNCHANGED <<events, mitarbeiter, sorted_events>>

Next == PlanStart \/ PlanEvent

Spec == Init /\ [][Next]_vars

(* ---- claims about the planning pass (Spec) ---- *)

RosterIds(res) == {res.assigned[k].id : k \in 1..Len(res.assigned)}
Processed == 1..Len(results)
SharesDate(e1, e2) == DateSet(e1) \cap DateSet(e2) # {}

(* C1: two distinct events that both ended with Success and share a         *)
(* required date have no worker in common.                                  *)
C1_DateExclusivity ==
    \A i, j \in Processed :
        (/\ i # j
         /\ results[i].status = "ok"
         /\ results[j].status = "ok"
         /\ SharesDate(sorted_events[i], sorted_events[j]))
        => RosterIds(results[i]) \cap RosterIds(results[j]) = {}

C1_Witness ==
    /\ pc = "done"
    /\ \E i, j \in Processed :
          /\ i # j
          /\ results[i].status = "ok" /\ results[i].assigned # <<>>
          /\ results[j].status = "ok" /\ results[j].assigned # <<>>
          /\ SharesDate(sorted_events[i], sorted_events[j])
          /\ DateSet(sorted_events[i]) # DateSet(sorted_events[j])

(* C4: every worker in the roster of an event that ended with Success has   *)
(* every required date of the event among the worker's available dates.     *)
C4_RosterAvailable ==
    \A i \in Processed :
        results[i].status = "ok" =>
            \A k \in 1..Len(results[i].assigned) :
                DateSet(sorted_events[i]) \subseteq
                    results[i].assigned[k].verfuegbare_termine

(* C6: with effective_required >= 0 for every event, the pass never aborts  *)
(* and, once it is over, holds a plan entry for every event.                *)
C6_PassCompletes ==
    (\A i \in 1..Len(events) : EffectiveRequired(events[i]) >= 0) =>
        /\ pc # "aborted"
        /\ pc = "done" => \A i \in 1..Len(events) : events[i].id \in DOMAIN plan
        /\ pc = "loop" => idx <= Len(sorted_events)

(* C7 as claimed: an event that ended with Failure over the full pool does  *)
(* not end with Success over the pool with one worker removed.              *)
C7_RemovalKeepsFailure ==
    pc = "done" =>
        \A w \in 1..Len(mitarbeiter) :
            LET less == PlanResults(events, RemoveAt(mitarbeiter, w))
            IN \A i \in Processed :
                  (results[i].status = "error" /\ i <= Len(less))
                  => less[i].status # "ok"

(* C7 amended: an event that shares no required date with any event before  *)
(* it in the planning order, the first event in particular, and that ended  *)
(* with Failure over the full pool does not end with Success over the pool  *)
(* with one worker removed; if it is the first event it ends with Failure.  *)
NoEarlierShares(i) ==
    \A j \in 1..(i - 1) : ~SharesDate(sorted_events[i], sorted_events[j])

C7_RemovalKeepsFailureOfUnsharedDates ==
    pc = "done" =>
        \A w \in 1..Len(mitarbeiter) :
            LET less == PlanResults(events, RemoveAt(mitarbeiter, w))
            IN \A i \in Processed :
                  (results[i].status = "error" /\ NoEarlierShares(i))
                  => /\ i <= Len(less) => less[i].status # "ok"
                     /\ i = 1 => (Len(less) >= 1 /\ less[1].status = "error")

C7_Witness ==
    /\ pc = "done"
    /\ Len(mitarbeiter) >= 2
    /\ \E i \in Processed :
          /\ i > 1
          /\ results[i].status = "error"
          /\ NoEarlierShares(i)
          /\ results[1].status = "ok" /\ results[1].assigned # <<>>

(* C10: processing one event changes worker_used_dates only so: on Success  *)
(* every roster worker gains exactly the required dates of the event and    *)
(* every other worker keeps its set; otherwise no set changes.  No claimed  *)
(* date is ever removed during the pass.                                    *)
C10_Step ==
    pc = "loop" =>
        LET event == sorted_events[idx]
        IN /\ DOMAIN worker_used_dates' = DOMAIN worker_used_dates
           /\ \A i \in DOMAIN worker_used_dates :
                 /\ worker_used_dates[i] \subseteq worker_used_dates'[i]
                 /\ IF ret'.status = "ok" /\ i \in RosterIds(ret')
                    THEN /\ worker_used_dates'[i] \ worker_used_dates[i]
                               = DateSet(event)
                    ELSE worker_used_dates'[i] = worker_used_dates[i]

(* C10: every step of the pass changes the claimed-date sets only as        *)
(* C10_Step allows.                                                         *)
C10_ClaimedDatesFrame == [][C10_Step]_vars

C10_Witness ==
    /\ pc \in {"loop", "done"}
    /\ idx > 1
    /\ ret.status = "ok"
    /\ Len(sorted_events[idx - 1].required_dates) > 1
    /\ RosterIds(ret) # {}
    /\ \E i \in DOMAIN worker_used_dates :
          i \notin RosterIds(ret) /\ worker_used_dates[i] # {}

(* ---- SpecEvents: the event collection under add, edit and delete ---- *)

(* Here a date is the number of days since 2024-05-30, so "2024-06-01" is  *)
(* 2, and the id "e<n>" or "m<n>" is the number n: the f-string of line    *)
(* 234 maps distinct numbers to distinct ids.                              *)
InitialEvents ==
    <<[id |-> 1, required_dates |-> <<2>>, required_mitarbeiter |-> 5,
       anzahl_staende |-> 3, mitarbeiter_pro_stand |-> 2,
       required_fuehrerscheine |->
           [c \in LicenseClasses |-> IF c = "BE" THEN 1 ELSE 2],
       needs_leiter |-> TRUE]>>

InitialMitarbeiter ==
    <<Worker(1, {"B"}, 2, {2, 16, 36, 37}),
      Worker(2, {"BE"}, 1, {2, 3, 16, 36}),
      Worker(6, {"BE"}, 1, {2, 36})>>

(* values entered in the form of lines 182-213; datum 0 is "no date" *)
FormDatum == {0, 2, 3}
FormStaende == {0, 1}
FormGesamt == {4}
FormFsNone == {0, 1}

(* lines 225-231 *)
FormDates(datum, voranreise, nachreise) ==
    (IF voranreise THEN <<datum - 1>> ELSE <<>>) \o <<datum>>
        \o (IF nachreise THEN <<datum + 1>> ELSE <<>>)

(* lines 233-244: the id is "e" followed by len(events) + 1 *)
neues_event(evs, datum, voranreise, nachreise, staende, gesamt, fs_b, fs_be, fs_none) ==
    [id |-> Len(evs) + 1,
     required_dates |-> FormDates(datum, voranreise, nachreise),
     required_mitarbeiter |-> gesamt,
     anzahl_staende |-> staende,
     mitarbeiter_pro_stand |-> MitarbeiterProStand,
     required_fuehrerscheine |->
         [c \in LicenseClasses |->
             IF c = "BE" THEN fs_be ELSE IF c = "B" THEN fs_b ELSE fs_none],
     needs_leiter |-> FALSE]

InitEvents ==
    /\ events = InitialEvents
    /\ mitarbeiter = InitialMitarbeiter
    /\ pc = "idle"
    /\ sorted_events = <<>>
    /\ idx = 0
    /\ worker_used_dates = NoPlan
    /\ plan = NoPlan
    /\ results = <<>>
    /\ call = NoCall
    /\ ret = NoResult

(* a new script run: the locals of the last planning pass are gone *)
NewRun ==
    /\ pc' = "idle"
    /\ sorted_events' = <<>>
    /\ idx' = 0
    /\ worker_used_dates' = NoPlan
    /\ plan' = NoPlan
    /\ results' = <<>>
    /\ call' = NoCall
    /\ ret' = NoResult

(* lines 215-248: "Event speichern" *)
AddEvent ==
    /\ pc # "loop"
    /\ Len(events) < MaxListLen
    /\ \E name_given \in BOOLEAN, datum \in FormDatum, voranreise \in BOOLEAN,
          nachreise \in BOOLEAN, staende \in FormStaende, gesamt \in FormGesamt,
          fs_none \in FormFsNone :
         events' =
            IF ~name_given \/ datum = 0 \/ staende = 0
            THEN events
            ELSE Append(events, neues_event(events, datum, voranreise, nachreise,
                                            staende, gesamt, 0, 0, fs_none))
    /\ NewRun
    /\ UNCHANGED mitarbeiter

(* values entered in the widgets of lines 262-268, next to the values the   *)
(* widgets show; a text of dates is held as its comma-separated pieces,    *)
(* the empty piece "" being 0                                              *)
EditTermine == {<<0>>, <<10>>}
EditStaende == {0}
EditMw == {0, 1}
EditFs == {0}

(* line 262: ", ".join(required_dates); the text of an empty list is the   *)
(* empty text, which line 274 splits into one empty piece                  *)
JoinDates(dates) == IF dates = <<>> THEN <<0>> ELSE dates

(* lines 272-277: the fields "Aenderungen speichern" overwrites *)
save_event(ev, edit_dates, edit_staende, edit_mw, edit_fs_b, edit_fs_be, edit_fs_none) ==
    [ev EXCEPT !.required_dates = edit_dates,
               !.anzahl_staende = edit_staende,
               !.required_mitarbeiter = edit_mw,
               !.required_fuehrerscheine =
                   [c \in LicenseClasses |->
                       IF c = "BE" THEN edit_fs_be
                       ELSE IF c = "B" THEN edit_fs_b ELSE edit_fs_none]]

(* lines 256-281: the save button of the event at position k, then the     *)
(* rerun of line 279                                                       *)
EditEvent ==
    /\ pc # "loop"
    /\ \E k \in 1..Len(events) :
         LET ev == events[k]
         IN \E edit_dates \in EditTermine \cup {JoinDates(ev.required_dates)},
               edit_staende \in EditStaende \cup {ev.anzahl_staende},
               edit_mw \in EditMw \cup {ev.required_mitarbeiter},
               edit_fs_b \in EditFs \cup {ev.required_fuehrerscheine["B"]},
               edit_fs_be \in EditFs \cup {ev.required_fuehrerscheine["BE"]},
               edit_fs_none \in EditFs \cup {ev.required_fuehrerscheine["none"]} :
              events' = [events EXCEPT ![k] =
                            save_event(ev, edit_dates, edit_staende, edit_mw,
                                       edit_fs_b, edit_fs_be, edit_fs_none)]
    /\ NewRun
    /\ UNCHANGED mitarbeiter

(* lines 284-287: the delete button of the event at position k *)
DeleteEvent ==
    /\ pc # "loop"
    /\ \E k \in 1..Len(events) :
         events' = SubSeq(events, 1, k - 1) \o SubSeq(events, k + 1, Len(events))
    /\ NewRun
    /\ UNCHANGED mitarbeiter

NextEvents == AddEvent \/ EditEvent \/ DeleteEvent \/ PlanStart \/ PlanEvent

SpecEvents == InitEvents /\ [][NextEvents]_vars

(* C11: after any sequence of add-event and delete-event operations from    *)
(* the initial collection no two events have the same id, so a finished     *)
(* planning pass holds one plan entry per event.                            *)
C11_UniqueEventIds ==
    /\ \A i, j \in 1..Len(events) : i # j => events[i].id # events[j].id
    /\ pc = "done" => Cardinality(DOMAIN plan) = Len(events)

====
